---- MODULE Spec2Model ----
(***************************************************************************)
(* Retrieval engine of LIFEE: the chunker (lifee/memory/chunker.py), the   *)
(* SQLite store (backend/memory/schema.py), the indexer and the search     *)
(* entry points (backend/memory/manager.py) and the hybrid ranking         *)
(* (backend/memory/search.py).                                             *)
(*                                                                         *)
(* Texts are sequences of one-character strings.  Scores are exact         *)
(* integers: a similarity or lexical score s is held as s * ScoreScale, a  *)
(* weight w as w * WeightScale, a composite or a threshold as its value    *)
(* times ScoreScale * WeightScale.  The time columns (files.mtime,         *)
(* chunks.updated_at) are not modelled: no step of the code reads them.    *)
(***************************************************************************)
EXTENDS Integers, Sequences, FiniteSets, TLC

(***************************************************************************)
(* Characters and texts                                                    *)
(***************************************************************************)
NL == "\n"
SP == " "
Whitespace == {SP, NL}
WordChars == {"a", "b", "c"}

Max(a, b) == IF a >= b THEN a ELSE b

RECURSIVE Rep(_, _)
\* n copies of the text w
Rep(w, n) == IF n = 0 THEN <<>> ELSE w \o Rep(w, n - 1)

RECURSIVE SplitFrom(_, _)
\* str.split("\n") of the text from position i on: the line up to the next
\* newline, then the lines after it
SplitFrom(s, i) ==
    LET newlines == {j \in i..Len(s) : s[j] = NL}
    IN IF newlines = {} THEN <<SubSeq(s, i, Len(s))>>
       ELSE LET j == CHOOSE j \in newlines : \A k \in newlines : j <= k
            IN <<SubSeq(s, i, j - 1)>> \o SplitFrom(s, j + 1)

SplitLines(s) == SplitFrom(s, 1)

RECURSIVE JoinLines(_)
\* "\n".join(lines)
JoinLines(ls) ==
    IF Len(ls) = 0 THEN <<>>
    ELSE IF Len(ls) = 1 THEN ls[1]
    ELSE ls[1] \o <<NL>> \o JoinLines(Tail(ls))

\* bool(text.strip())
StripNonEmpty(t) == \E k \in 1..Len(t) : t[k] \notin Whitespace

\* hashlib.sha256(...).hexdigest(): collision free, kept as a tagged value
Sha256(t) == <<"sha256", t>>

\* Chunk.compute_hash: the digest cut to 16 hex digits, still collision free
compute_hash(t) == <<"sha16", t>>

(***************************************************************************)
(* chunk_markdown                                                          *)
(***************************************************************************)
MinMaxChars == 32

\* the budget without its lower limit
max_chars_unfloored(max_tokens) == max_tokens * 4

max_chars_of(max_tokens) == Max(MinMaxChars, max_tokens * 4)
overlap_chars_of(overlap_tokens) == Max(0, overlap_tokens * 4)

RECURSIVE OverlapFromStrict(_, _, _, _, _)
\* a line that fills overlap_chars exactly is not taken
OverlapFromStrict(cur, k, acc, total, overlap_chars) ==
    IF k = 0 THEN [lines |-> acc, total |-> total]
    ELSE IF total + Len(cur[k]) + 1 < overlap_chars
         THEN OverlapFromStrict(cur, k - 1, <<cur[k]>> \o acc,
                                total + Len(cur[k]) + 1, overlap_chars)
         ELSE [lines |-> acc, total |-> total]

RECURSIVE OverlapFrom(_, _, _, _, _)
\* the loop over reversed(current_lines): k is the line looked at, acc the
\* overlap lines kept so far, total their size
OverlapFrom(cur, k, acc, total, overlap_chars) ==
    IF k = 0 THEN [lines |-> acc, total |-> total]
    ELSE IF total + Len(cur[k]) + 1 <= overlap_chars
         THEN OverlapFrom(cur, k - 1, <<cur[k]>> \o acc,
                          total + Len(cur[k]) + 1, overlap_chars)
         ELSE [lines |-> acc, total |-> total]

OverlapLines(cur, overlap_chars) ==
    OverlapFrom(cur, Len(cur), <<>>, 0, overlap_chars)

\* the lines are numbered from 1
MakeChunkOneBased(ls, first, last) ==
    [text |-> JoinLines(ls), start_line |-> first + 1, end_line |-> last + 1,
     hash |-> compute_hash(JoinLines(ls))]

MakeChunk(ls, first, last) ==
    [text |-> JoinLines(ls), start_line |-> first, end_line |-> last,
     hash |-> compute_hash(JoinLines(ls))]

\* the buffer is emitted whatever its text
EmitChunkUnguarded(chunks, ls, first, last) ==
    Append(chunks, MakeChunk(ls, first, last))

\* chunks.append(...) guarded by chunk_text.strip()
EmitChunk(chunks, ls, first, last) ==
    IF StripNonEmpty(JoinLines(ls))
    THEN Append(chunks, MakeChunk(ls, first, last))
    ELSE chunks

RECURSIVE ChunkLoop(_, _, _, _, _, _, _, _)
\* the for loop over enumerate(lines); i is the 0-based line index
ChunkLoop(lines, i, chunks, cur, cur_chars, start, max_chars, overlap_chars) ==
    IF i >= Len(lines)
    THEN IF Len(cur) > 0
         THEN EmitChunk(chunks, cur, start, Len(lines) - 1)
         ELSE chunks
    ELSE LET line == lines[i + 1]
             line_chars == Len(line) + 1
         IN IF cur_chars + line_chars > max_chars /\ Len(cur) > 0
            THEN LET ov == OverlapLines(cur, overlap_chars)
                 IN ChunkLoop(lines, i + 1,
                              EmitChunk(chunks, cur, start, i - 1),
                              Append(ov.lines, line),
                              ov.total + line_chars,
                              i - Len(ov.lines),
                              max_chars, overlap_chars)
            ELSE ChunkLoop(lines, i + 1, chunks, Append(cur, line),
                           cur_chars + line_chars, start,
                           max_chars, overlap_chars)

chunk_markdown(content, max_tokens, overlap_tokens) ==
    ChunkLoop(SplitLines(content), 0, <<>>, <<>>, 0, 0,
              max_chars_of(max_tokens), overlap_chars_of(overlap_tokens))

RECURSIVE CloseLoop(_, _, _, _, _, _, _, _)
\* the same for loop, keeping for every buffer it closes the lines of the
\* buffer (closed), its start_line (first), the index i of the line that did
\* not fit (at), and overlap_lines (seed) with the start_line of the buffer
\* that follows (next_start)
CloseLoop(lines, i, closes, cur, cur_chars, start, max_chars, overlap_chars) ==
    IF i >= Len(lines) THEN closes
    ELSE LET line == lines[i + 1]
             line_chars == Len(line) + 1
         IN IF cur_chars + line_chars > max_chars /\ Len(cur) > 0
            THEN LET ov == OverlapLines(cur, overlap_chars)
                 IN CloseLoop(lines, i + 1,
                              Append(closes,
                                  [closed |-> cur, first |-> start, at |-> i,
                                   seed |-> ov.lines,
                                   next_start |-> i - Len(ov.lines)]),
                              Append(ov.lines, line),
                              ov.total + line_chars,
                              i - Len(ov.lines),
                              max_chars, overlap_chars)
            ELSE CloseLoop(lines, i + 1, closes, Append(cur, line),
                           cur_chars + line_chars, start,
                           max_chars, overlap_chars)

\* the buffers chunk_markdown closes before the last one
closed_buffers(content, max_tokens, overlap_tokens) ==
    CloseLoop(SplitLines(content), 0, <<>>, <<>>, 0, 0,
              max_chars_of(max_tokens), overlap_chars_of(overlap_tokens))

(***************************************************************************)
(* The corpus: file contents the file system may hold                      *)
(***************************************************************************)
Filler == "-"
LineA == <<"a">> \o Rep(<<Filler>>, 11)
LineB == <<"b">> \o Rep(<<Filler>>, 11)
LineC == <<"a", SP, "b">> \o Rep(<<Filler>>, 9)
\* LineC with one letter changed
LineC2 == <<"a", SP, "c">> \o Rep(<<Filler>>, 9)

DocS1 == <<"a">>
\* DocS1 with its only byte changed: whitespace only, chunks to nothing
DocS2 == <<SP>>
DocD1 == JoinLines(<<LineA, LineB, LineC>>)
\* DocD1 with one byte of its last line changed
DocD2 == JoinLines(<<LineA, LineB, LineC2>>)

Contents == {DocS1, DocS2, DocD1, DocD2}

\* a second file of the searched corpus: four lines, three chunks
LineBB == <<"b", SP, "b">> \o Rep(<<Filler>>, 9)
DocE == JoinLines(<<LineA, LineA, LineBB, LineB>>)
\* the content of a path that does not exist
Absent == <<"absent">>

Paths == {"p1", "p2"}
\* the paths whose file changes and is indexed while calls interleave
PathsMain == {"p1"}

\* the (max_tokens, overlap_tokens) pairs index_file is called with
ChunkParams == {<<8, 4>>}

(***************************************************************************)
(* The store: backend/memory/schema.py                                     *)
(***************************************************************************)
\* what SELECT_FILE_SQL gives for a path without a file record
NoRow == [hash |-> <<>>, size |-> 0 - 1]

EmptyStore ==
    [files |-> [p \in Paths |-> NoRow], chunks |-> <<>>, fts |-> <<>>]

\* SELECT_FILE_SQL
SelectFile(s, path) == s.files[path]

\* INSERT_FILE_SQL: INSERT OR REPLACE INTO files
InsertFile(s, path, hash, size) ==
    [s EXCEPT !.files[path] = [hash |-> hash, size |-> size]]

\* INSERT_CHUNK_SQL: INSERT OR REPLACE INTO chunks, id is the primary key;
\* the rows are kept in rowid order
InsertChunk(s, row) ==
    [s EXCEPT !.chunks = Append(SelectSeq(@, LAMBDA r : r.id # row.id), row)]

\* INSERT_FTS_SQL: a plain INSERT, chunks_fts has no key
InsertFts(s, row) == [s EXCEPT !.fts = Append(@, row)]

\* the old chunk rows are not deleted
DeleteChunksKeep(s, path) == s

\* DELETE_CHUNKS_BY_PATH_SQL
DeleteChunksByPath(s, path) ==
    [s EXCEPT !.chunks = SelectSeq(@, LAMBDA r : r.path # path)]

\* the old lexical entries are not deleted
DeleteFtsKeep(s, path) == s

\* DELETE_FTS_BY_PATH_SQL
DeleteFtsByPath(s, path) ==
    [s EXCEPT !.fts = SelectSeq(@, LAMBDA r : r.path # path)]

(***************************************************************************)
(* The embedding backend (an external service): one vector per text        *)
(***************************************************************************)
RECURSIVE FirstWordChar(_, _)
FirstWordChar(t, k) ==
    IF k > Len(t) THEN "none"
    ELSE IF t[k] \in WordChars THEN t[k]
    ELSE FirstWordChar(t, k + 1)

EmbedVector(t) ==
    LET ch == FirstWordChar(t, 1)
    IN CASE ch = "a" -> <<1, 0>>
         [] ch = "b" -> <<0, 1>>
         [] ch = "c" -> <<-3, 4>>
         [] OTHER -> <<0, 0>>

\* EmbeddingProvider.embed_batch: embed mapped over the texts
EmbedBatch(texts) == [k \in 1..Len(texts) |-> EmbedVector(texts[k])]

(***************************************************************************)
(* backend/memory/search.py                                                *)
(***************************************************************************)
\* a score s is held as the integer s * ScoreScale
ScoreScale == 300
\* a weight w is held as the integer w * WeightScale
WeightScale == 10

\* Optional[float]: <<>> is None, <<v>> a value
None == <<>>
Some(v) == <<v>>
\* `x or 0.0`
OrZero(o) == IF o = None THEN 0 ELSE o[1]

Dot(a, b) == a[1] * b[1] + a[2] * b[2]
\* np.linalg.norm, exact on the vectors of the backend above
Norm(a) == CHOOSE n \in 0..(Dot(a, a) + 1) : n * n = Dot(a, a)

cosine_similarity(a, b) ==
    IF Norm(a) = 0 \/ Norm(b) = 0 THEN 0
    ELSE (Dot(a, b) * ScoreScale) \div (Norm(a) * Norm(b))

RECURSIVE TokensFrom(_, _, _)
\* the maximal runs of word characters of t: re.findall(r'[\w...]+') on a
\* query, the unicode61 tokenizer on an indexed text
TokensFrom(t, k, cur) ==
    IF k > Len(t) THEN (IF cur = <<>> THEN <<>> ELSE <<cur>>)
    ELSE IF t[k] \in WordChars THEN TokensFrom(t, k + 1, Append(cur, t[k]))
    ELSE (IF cur = <<>> THEN <<>> ELSE <<cur>>) \o TokensFrom(t, k + 1, <<>>)

Tokens(t) == TokensFrom(t, 1, <<>>)

\* the terms of the conjunctive query; <<>> stands for the empty string
build_fts_query(query) == Tokens(query)

\* number of occurrences of term among the tokens of text
TermCount(text, term) ==
    Cardinality({k \in 1..Len(Tokens(text)) : Tokens(text)[k] = term})

\* chunks_fts MATCH '"w1" AND "w2" ...': every term occurs in the text
FtsMatch(text, terms) ==
    \A k \in 1..Len(terms) : TermCount(text, terms[k]) > 0

RECURSIVE SumCounts(_, _, _)
SumCounts(text, terms, k) ==
    IF k > Len(terms) THEN 0
    ELSE TermCount(text, terms[k]) + SumCounts(text, terms, k + 1)

\* bm25(chunks_fts) of SQLite FTS5 (external): negative, and lower the more
\* often the terms occur in the text
Bm25(text, terms) == 0 - SumCounts(text, terms, 1)

RECURSIVE InsertByScoreBeforeEqual(_, _)
\* r goes before the elements whose score equals its own
InsertByScoreBeforeEqual(sorted, r) ==
    IF Len(sorted) = 0 THEN <<r>>
    ELSE IF sorted[1].score > r.score
         THEN <<sorted[1]>> \o InsertByScoreBeforeEqual(Tail(sorted), r)
         ELSE <<r>> \o sorted

RECURSIVE InsertByScore(_, _)
\* r goes behind every element whose score is not lower than its own
InsertByScore(sorted, r) ==
    IF Len(sorted) = 0 THEN <<r>>
    ELSE IF sorted[1].score >= r.score
         THEN <<sorted[1]>> \o InsertByScore(Tail(sorted), r)
         ELSE <<r>> \o sorted

RECURSIVE SortByScoreFrom(_, _, _)
SortByScoreFrom(seq, k, acc) ==
    IF k > Len(seq) THEN acc
    ELSE SortByScoreFrom(seq, k + 1, InsertByScore(acc, seq[k]))

\* the list is left in the order it has
SortKeepsOrder(seq) == seq

\* list.sort(key=lambda x: x.score, reverse=True): stable, descending
SortByScoreDesc(seq) == SortByScoreFrom(seq, 1, <<>>)

RECURSIVE InsertByRank(_, _)
InsertByRank(sorted, r) ==
    IF Len(sorted) = 0 THEN <<r>>
    ELSE IF sorted[1].rank <= r.rank
         THEN <<sorted[1]>> \o InsertByRank(Tail(sorted), r)
         ELSE <<r>> \o sorted

RECURSIVE SortByRankFrom(_, _, _)
SortByRankFrom(seq, k, acc) ==
    IF k > Len(seq) THEN acc
    ELSE SortByRankFrom(seq, k + 1, InsertByRank(acc, seq[k]))

\* ORDER BY rank ASC, rows of equal rank in rowid order
OrderByRankAsc(seq) == SortByRankFrom(seq, 1, <<>>)

\* seq[:n]
Take(seq, n) == SubSeq(seq, 1, IF n < Len(seq) THEN n ELSE Len(seq))

SearchResult(row, score, vector_score, text_score) ==
    [id |-> row.id, path |-> row.path, start_line |-> row.start_line,
     end_line |-> row.end_line, text |-> row.text, score |-> score,
     vector_score |-> vector_score, text_score |-> text_score]

\* the chunks of every model are scored
search_vector_any_model(s, query_embedding, model_name, limit) ==
    LET rows == s.chunks
        results == [k \in 1..Len(rows) |->
            LET similarity == cosine_similarity(query_embedding,
                                                rows[k].embedding)
            IN SearchResult(rows[k], similarity, Some(similarity), None)]
    IN Take(SortByScoreDesc(results), limit)

search_vector(s, query_embedding, model_name, limit) ==
    LET rows == SelectSeq(s.chunks, LAMBDA r : r.model = model_name)
        results == [k \in 1..Len(rows) |->
            LET similarity == cosine_similarity(query_embedding,
                                                rows[k].embedding)
            IN SearchResult(rows[k], similarity, Some(similarity), None)]
    IN Take(SortByScoreDesc(results), limit)

\* the division is left out: 1 + max(0, -rank)
TextScoreUnbounded(rank) == ScoreScale * (1 + Max(0, 0 - rank))

\* 1 / (1 + max(0, -rank))
TextScore(rank) == ScoreScale \div (1 + Max(0, 0 - rank))

\* the query is run also when it has no term: every entry matches
search_keyword_unguarded(s, query, model_name, limit) ==
    LET fts_query == build_fts_query(query)
        hits == SelectSeq(s.fts, LAMBDA r :
                    FtsMatch(r.text, fts_query) /\ r.model = model_name)
        ranked == OrderByRankAsc([k \in 1..Len(hits) |->
                    [row |-> hits[k], rank |-> Bm25(hits[k].text, fts_query)]])
        rows == Take(ranked, limit)
    IN [k \in 1..Len(rows) |->
            SearchResult(rows[k].row, TextScore(rows[k].rank), None,
                         Some(TextScore(rows[k].rank)))]

search_keyword(s, query, model_name, limit) ==
    LET fts_query == build_fts_query(query)
        hits == SelectSeq(s.fts, LAMBDA r :
                    FtsMatch(r.text, fts_query) /\ r.model = model_name)
        ranked == OrderByRankAsc([k \in 1..Len(hits) |->
                    [row |-> hits[k], rank |-> Bm25(hits[k].text, fts_query)]])
        rows == Take(ranked, limit)
    IN IF fts_query = <<>> THEN <<>>
       ELSE [k \in 1..Len(rows) |->
                SearchResult(rows[k].row, TextScore(rows[k].rank), None,
                             Some(TextScore(rows[k].rank)))]

\* position of id among the keys of the dict merged, 0 when absent
IndexOfId(merged, id) ==
    IF \E k \in 1..Len(merged) : merged[k].id = id
    THEN CHOOSE k \in 1..Len(merged) : merged[k].id = id
    ELSE 0

RECURSIVE MergeVector(_, _, _)
\* for result in vector_results: merged[result.id] = ...
MergeVector(merged, vector_results, k) ==
    IF k > Len(vector_results) THEN merged
    ELSE LET r == [vector_results[k] EXCEPT !.score = 0, !.text_score = None]
             at == IndexOfId(merged, r.id)
         IN MergeVector(IF at = 0 THEN Append(merged, r)
                        ELSE [merged EXCEPT ![at] = r],
                        vector_results, k + 1)

RECURSIVE MergeKeyword(_, _, _)
\* for result in keyword_results: set text_score, or add the result
MergeKeyword(merged, keyword_results, k) ==
    IF k > Len(keyword_results) THEN merged
    ELSE LET r == keyword_results[k]
             at == IndexOfId(merged, r.id)
         IN MergeKeyword(
                IF at = 0
                THEN Append(merged, [r EXCEPT !.score = 0,
                                              !.vector_score = None])
                ELSE [merged EXCEPT ![at].text_score = r.text_score],
                keyword_results, k + 1)

\* the lexical score is left out of the composite
CompositeVectorOnly(r, vector_weight, text_weight) ==
    vector_weight * OrZero(r.vector_score)

\* result.score = vector_weight * v_score + text_weight * t_score
Composite(r, vector_weight, text_weight) ==
    vector_weight * OrZero(r.vector_score) + text_weight * OrZero(r.text_score)

\* the threshold is applied to the vector score alone
FilterByVectorScore(scored, min_score) ==
    SelectSeq(scored, LAMBDA r :
        OrZero(r.vector_score) * WeightScale >= min_score)

\* the list comprehension `r.score >= min_score`
FilterByMinScore(scored, min_score) ==
    SelectSeq(scored, LAMBDA r : r.score >= min_score)

candidate_multiplier == 4

\* hybrid_search when db.execute of the lexical query raises
\* sqlite3.OperationalError: search_keyword returns [] from its except branch
hybrid_search_rejected(s, query_embedding, model_name, a) ==
    LET candidates == a.max_results * candidate_multiplier
        vector_results ==
            search_vector(s, query_embedding, model_name, candidates)
        merged == MergeKeyword(MergeVector(<<>>, vector_results, 1), <<>>, 1)
        scored == [k \in 1..Len(merged) |->
            [merged[k] EXCEPT !.score =
                Composite(merged[k], a.vector_weight, a.text_weight)]]
        final_results ==
            SortByScoreDesc(FilterByMinScore(scored, a.min_score))
    IN Take(final_results, a.max_results)

\* a is the record of max_results, min_score, vector_weight, text_weight
hybrid_search(s, query_embedding, query_text, model_name, a) ==
    LET max_results == a.max_results
        min_score == a.min_score
        vector_weight == a.vector_weight
        text_weight == a.text_weight
        candidates == max_results * candidate_multiplier
        vector_results ==
            search_vector(s, query_embedding, model_name, candidates)
        keyword_results ==
            search_keyword(s, query_text, model_name, candidates)
        merged == MergeKeyword(MergeVector(<<>>, vector_results, 1),
                               keyword_results, 1)
        scored == [k \in 1..Len(merged) |->
            [merged[k] EXCEPT !.score =
                Composite(merged[k], vector_weight, text_weight)]]
        final_results == SortByScoreDesc(FilterByMinScore(scored, min_score))
    IN Take(final_results, max_results)

(***************************************************************************)
(* backend/memory/manager.py: MemoryManager                                *)
(***************************************************************************)
\* the coroutines that may call the manager at the same time
NumTasks == 2
Tasks == 1..NumTasks

VARIABLES
    fs,      \* the file system: the content of each path, or Absent
    db,      \* the store as the manager's connection sees it (self.db)
    disk,    \* the store as last committed
    model,   \* self.embedding.model_name
    task,    \* the coroutines: idle, or suspended in an await
    ev,      \* the step just taken and what it returned to its caller
    _dims    \* self._dims of a SiliconFlowEmbedding backend

vars == <<fs, db, disk, model, task, ev, _dims>>

Idle == [pc |-> "idle"]

_file_hash(content) == Sha256(content)

\* sha256(f"{path}:{start_line}:{end_line}:{chunk_hash}:{model}")[:16]
_chunk_id(path, start_line, end_line, chunk_hash, model_name) ==
    <<"id", path, start_line, end_line, chunk_hash, model_name>>

\* the comparison of the hashes turned round
_needs_reindex_inverted(s, path, content) ==
    IF SelectFile(s, path) = NoRow THEN TRUE
    ELSE SelectFile(s, path).hash = _file_hash(content)

_needs_reindex(s, path, content) ==
    IF SelectFile(s, path) = NoRow THEN TRUE
    ELSE SelectFile(s, path).hash # _file_hash(content)

ChunkRow(path, chunk, embedding, model_name) ==
    [id |-> _chunk_id(path, chunk.start_line, chunk.end_line, chunk.hash,
                      model_name),
     path |-> path, start_line |-> chunk.start_line,
     end_line |-> chunk.end_line, hash |-> chunk.hash, model |-> model_name,
     text |-> chunk.text, embedding |-> embedding]

FtsRow(path, chunk, model_name) ==
    [text |-> chunk.text,
     id |-> _chunk_id(path, chunk.start_line, chunk.end_line, chunk.hash,
                      model_name),
     path |-> path, model |-> model_name, start_line |-> chunk.start_line,
     end_line |-> chunk.end_line]

\* zip(chunks, embeddings): as many pairs as the shorter
ZipLen(chunks, embeddings) ==
    IF Len(chunks) < Len(embeddings) THEN Len(chunks) ELSE Len(embeddings)

RECURSIVE InsertRows(_, _, _, _, _, _)
\* the loop of index_file over zip(chunks, embeddings)
InsertRows(s, path, chunks, embeddings, model_name, k) ==
    IF k > ZipLen(chunks, embeddings) THEN s
    ELSE InsertRows(
            InsertFts(InsertChunk(s, ChunkRow(path, chunks[k], embeddings[k],
                                              model_name)),
                      FtsRow(path, chunks[k], model_name)),
            path, chunks, embeddings, model_name, k + 1)

\* index_file from "delete the old data" to the end of the insert loop
ReplaceRows(s, path, chunks, embeddings, model_name) ==
    InsertRows(DeleteChunksByPath(DeleteFtsByPath(s, path), path),
               path, chunks, embeddings, model_name, 1)

\* the texts handed to embed_batch
TextsOf(chunks) == [k \in 1..Len(chunks) |-> chunks[k].text]

\* the chunk rows / lexical entries a store holds for a path
ChunksOfPath(s, path) == SelectSeq(s.chunks, LAMBDA r : r.path = path)
FtsOfPath(s, path) == SelectSeq(s.fts, LAMBDA r : r.path = path)
IdsOfPath(s, path) ==
    {ChunksOfPath(s, path)[k].id : k \in 1..Len(ChunksOfPath(s, path))}

\* ret is the value returned; raised tells that the call raised instead
Event(op, path, ret, info) ==
    [op |-> op, path |-> path, ret |-> ret, raised |-> FALSE, info |-> info]
Raise(op, path, ret, info) ==
    [op |-> op, path |-> path, ret |-> ret, raised |-> TRUE, info |-> info]

Init ==
    /\ fs = [p \in Paths |-> Absent]
    /\ db = EmptyStore
    /\ disk = EmptyStore
    /\ model = "m1"
    /\ task = [t \in Tasks |-> Idle]
    /\ ev = Event("init", "none", 0, <<>>)
    /\ _dims = 0

(***************************************************************************)
(* The file system changes under the manager at any time                   *)
(***************************************************************************)
FileWrite(p, c) ==
    /\ fs[p] # c
    /\ fs' = [fs EXCEPT ![p] = c]
    /\ ev' = Event("file_write", p, 0, <<>>)
    /\ UNCHANGED <<db, disk, model, task, _dims>>

FileDelete(p) ==
    /\ fs[p] # Absent
    /\ fs' = [fs EXCEPT ![p] = Absent]
    /\ ev' = Event("file_delete", p, 0, <<>>)
    /\ UNCHANGED <<db, disk, model, task, _dims>>

(***************************************************************************)
(* index_file, up to `await self.embedding.embed_batch(texts)`             *)
(***************************************************************************)
\* what a step of index_file tells: the content and parameters of the call,
\* whether it passed the guard `not force and not self._needs_reindex(path)`
\* and where it stands
IndexInfo(params, content, passed, why) ==
    [params |-> params, content |-> content, passed |-> passed, why |-> why]

\* the same for the step that starts the call, with its force argument
BeginInfo(force, params, content, passed, why) ==
    [force |-> force, params |-> params, content |-> content,
     passed |-> passed, why |-> why]

\* the same for the step that ends the writes, with the number of chunk
\* rows of the path that the call deleted
EndInfo(params, content, why, replaced) ==
    [params |-> params, content |-> content, passed |-> TRUE, why |-> why,
     replaced |-> replaced]

\* `if not path.exists()` is left out: reading the file raises
IndexFileBeginUnchecked(t, p, force, params) ==
    /\ task[t].pc = "idle"
    /\ fs[p] = Absent
    /\ ev' = Raise("index_file", p, 0,
                   BeginInfo(force, params, Absent, FALSE, "missing"))
    /\ UNCHANGED <<fs, db, disk, model, task, _dims>>

IndexFileBegin(t, p, force, params) ==
    /\ task[t].pc = "idle"
    /\ UNCHANGED <<fs, db, disk, model, _dims>>
    /\ IF fs[p] = Absent
       THEN /\ ev' = Event("index_file", p, 0,
                           BeginInfo(force, params, Absent, FALSE, "missing"))
            /\ UNCHANGED task
       ELSE IF ~force /\ ~_needs_reindex(db, p, fs[p])
       THEN /\ ev' = Event("index_file", p, 0,
                           BeginInfo(force, params, fs[p], FALSE, "unchanged"))
            /\ UNCHANGED task
       ELSE LET chunks == chunk_markdown(fs[p], params[1], params[2])
            IN IF Len(chunks) = 0
               THEN /\ ev' = Event("index_file", p, 0,
                            BeginInfo(force, params, fs[p], TRUE, "nochunks"))
                    /\ UNCHANGED task
               ELSE /\ task' = [task EXCEPT ![t] =
                            [pc |-> "embed_batch", path |-> p,
                             params |-> params, content |-> fs[p],
                             chunks |-> chunks]]
                    /\ ev' = Event("await_embed_batch", p, 0,
                            BeginInfo(force, params, fs[p], TRUE, "await"))

(***************************************************************************)
(* index_file, from the return of embed_batch to `return len(chunks)`.     *)
(* There is no await in this part, so no other coroutine of the event loop *)
(* runs within it.                                                         *)
(***************************************************************************)
IndexFileResume(t) ==
    /\ task[t].pc = "embed_batch"
    /\ LET p == task[t].path
           chunks == task[t].chunks
           embeddings == EmbedBatch(TextsOf(chunks))
           written == ReplaceRows(db, p, chunks, embeddings, model)
           info(why) == EndInfo(task[t].params, task[t].content, why,
                                Len(ChunksOfPath(db, p)))
       IN IF fs[p] = Absent
          THEN \* path.stat() raises: nothing is committed or rolled back
               /\ db' = written
               /\ disk' = disk
               /\ ev' = Raise("index_file", p, 0, info("stat"))
          ELSE /\ db' = InsertFile(written, p, _file_hash(fs[p]), Len(fs[p]))
               /\ disk' = db'
               /\ ev' = Event("index_file", p, Len(chunks),
                              info("indexed"))
    /\ task' = [task EXCEPT ![t] = Idle]
    /\ UNCHANGED <<fs, model, _dims>>

\* the failure is taken for an empty list of vectors and indexing goes on
EmbedBatchSwallowed(t) ==
    /\ task[t].pc = "embed_batch"
    /\ fs[task[t].path] # Absent
    /\ db' = InsertFile(ReplaceRows(db, task[t].path, task[t].chunks, <<>>,
                                    model),
                        task[t].path, _file_hash(fs[task[t].path]),
                        Len(fs[task[t].path]))
    /\ disk' = db'
    /\ ev' = Event("index_file", task[t].path, Len(task[t].chunks),
                   IndexInfo(task[t].params, task[t].content, TRUE,
                             "embedding"))
    /\ task' = [task EXCEPT ![t] = Idle]
    /\ UNCHANGED <<fs, model, _dims>>

\* embed_batch raises: the exception leaves index_file at the await
EmbedBatchRaise(t) ==
    /\ task[t].pc = "embed_batch"
    /\ ev' = Raise("index_file", task[t].path, 0,
                   IndexInfo(task[t].params, task[t].content, TRUE,
                             "embedding"))
    /\ task' = [task EXCEPT ![t] = Idle]
    /\ UNCHANGED <<fs, db, disk, model, _dims>>

(***************************************************************************)
(* search: `await self.embedding.embed(query)`, then hybrid_search         *)
(***************************************************************************)
Queries == {<<"a">>, <<"b">>, <<"a", SP, "b">>, <<"c">>, <<Filler>>, <<>>}

\* a threshold m is held as m * ScoreScale * WeightScale
Threshold(hundredths) == (hundredths * ScoreScale * WeightScale) \div 100

SearchArgs(max_results, min_score, vector_weight, text_weight) ==
    [max_results |-> max_results, min_score |-> min_score,
     vector_weight |-> vector_weight, text_weight |-> text_weight]

\* search(query, max_results=6, min_score=0.35, vector_weight=0.7,
\*        text_weight=0.3)
DefaultArgs == SearchArgs(6, Threshold(35), 7, 3)

\* the arguments tried: max_results up to MaxResultsTried, thresholds in
\* hundredths, weights in tenths
MaxResultsTried == 2
MinScoresTried == {0, 50}
WeightsTried == {<<7, 3>>, <<3, 7>>, <<0, 10>>}
ArgsTried ==
    {DefaultArgs}
    \cup {SearchArgs(n, Threshold(m), w[1], w[2]) :
            n \in 0..MaxResultsTried, m \in MinScoresTried,
            w \in WeightsTried}

\* the searches tried while index_file calls run
QueriesMain == {<<"a">>}
ArgsMain == {SearchArgs(6, Threshold(0), 7, 3)}
\* the tasks that call search (every task calls index_file)
Searchers == {1}

SearchBegin(t, q, args) ==
    /\ task[t].pc = "idle"
    /\ task' = [task EXCEPT ![t] =
                    [pc |-> "embed", query |-> q, args |-> args]]
    /\ ev' = Event("await_embed", "none", 0, <<>>)
    /\ UNCHANGED <<fs, db, disk, model, _dims>>

\* the paths that an index_file suspended in embed_batch is indexing
InFlight == {task[t].path : t \in {u \in Tasks : task[u].pc = "embed_batch"}}

SearchResume(t) ==
    /\ task[t].pc = "embed"
    /\ LET a == task[t].args
       IN ev' = Event("search", "none",
                      hybrid_search(db, EmbedVector(task[t].query),
                                    task[t].query, model, a),
                      [query |-> task[t].query, args |-> a,
                       inflight |-> InFlight, why |-> "searched"])
    /\ task' = [task EXCEPT ![t] = Idle]
    /\ UNCHANGED <<fs, db, disk, model, _dims>>

\* the store rejects the lexical query (sqlite3.OperationalError)
SearchResumeRejected(t) ==
    /\ task[t].pc = "embed"
    /\ Tokens(task[t].query) # <<>>
    /\ LET a == task[t].args
       IN ev' = Event("search", "none",
                      hybrid_search_rejected(db, EmbedVector(task[t].query),
                                             model, a),
                      [query |-> task[t].query, args |-> a,
                       inflight |-> InFlight, why |-> "rejected"])
    /\ task' = [task EXCEPT ![t] = Idle]
    /\ UNCHANGED <<fs, db, disk, model, _dims>>

\* embed raises: the exception leaves search at the await
EmbedRaise(t) ==
    /\ task[t].pc = "embed"
    /\ ev' = Raise("search", "none", <<>>,
                   [query |-> task[t].query, args |-> task[t].args,
                    inflight |-> InFlight, why |-> "embedding"])
    /\ task' = [task EXCEPT ![t] = Idle]
    /\ UNCHANGED <<fs, db, disk, model, _dims>>

(***************************************************************************)
(* get_stats and clear                                                     *)
(***************************************************************************)
GetStats ==
    /\ ev' = Event("get_stats", "none",
                   [file_count |->
                        Cardinality({p \in Paths : db.files[p] # NoRow}),
                    chunk_count |-> Len(db.chunks),
                    embedding_model |-> model], <<>>)
    /\ UNCHANGED <<fs, db, disk, model, task, _dims>>

\* the table of the file records is not emptied
ClearKeepsFiles ==
    /\ db' = [db EXCEPT !.chunks = <<>>, !.fts = <<>>]
    /\ disk' = db'
    /\ ev' = Event("clear", "none", 0, [before |-> db])
    /\ UNCHANGED <<fs, model, task, _dims>>

\* the event tells what the store held before
Clear ==
    /\ db' = EmptyStore
    /\ disk' = db'
    /\ ev' = Event("clear", "none", 0, [before |-> db])
    /\ UNCHANGED <<fs, model, task, _dims>>

Next ==
    \/ \E p \in PathsMain, c \in Contents : FileWrite(p, c)
    \/ \E p \in PathsMain : FileDelete(p)
    \/ \E t \in Tasks, p \in PathsMain, force \in BOOLEAN, params \in ChunkParams :
            IndexFileBegin(t, p, force, params)
    \/ \E t \in Tasks : IndexFileResume(t)
    \/ \E t \in Tasks : EmbedBatchRaise(t)
    \/ \E t \in Searchers, q \in QueriesMain, args \in ArgsMain :
            SearchBegin(t, q, args)
    \/ \E t \in Tasks : SearchResume(t)
    \/ \E t \in Tasks : EmbedRaise(t)
    \/ GetStats
    \/ Clear

Spec == Init /\ [][Next]_vars

(***************************************************************************)
(* The searches of a single caller over the stores indexing produces       *)
(***************************************************************************)
\* the contents of each file of the searched corpus
ContentsSearched(p) == IF p = "p1" THEN {DocD1, DocD2} ELSE {DocE}

NextSearch ==
    \/ \E p \in Paths : \E c \in ContentsSearched(p) : FileWrite(p, c)
    \/ \E p \in Paths, params \in ChunkParams :
            IndexFileBegin(1, p, FALSE, params)
    \/ IndexFileResume(1)
    \/ \E q \in Queries, args \in ArgsTried : SearchBegin(1, q, args)
    \/ SearchResume(1)
    \/ SearchResumeRejected(1)

SpecSearch == Init /\ [][NextSearch]_vars

(***************************************************************************)
(* index_directory: the sweep over the files of one directory, each        *)
(* indexed by index_file with its default parameters                       *)
(***************************************************************************)
\* index_file(path, force=force): max_tokens = 400, overlap_tokens = 80
DefaultParams == <<400, 80>>

\* `if path.is_file()` fails, or index_file returns 0 before its await
ReturnsAtOnce(s, p, force) ==
    \/ fs[p] = Absent
    \/ ~force /\ ~_needs_reindex(s, p, fs[p])
    \/ Len(chunk_markdown(fs[p], DefaultParams[1], DefaultParams[2])) = 0

RECURSIVE SkipReturned(_, _, _)
\* the loop of index_directory up to the first file whose index_file
\* suspends: what is left of the listing, that file first
SkipReturned(s, listing, force) ==
    IF listing = <<>> THEN <<>>
    ELSE IF ReturnsAtOnce(s, listing[1], force)
         THEN SkipReturned(s, Tail(listing), force)
         ELSE listing

\* what a step of index_directory tells: the files of the listing not yet
\* reached and the chunks counted so far
SweepInfo(why, force, rest, total) ==
    [why |-> why, force |-> force, rest |-> rest, total |-> total]

\* the loop goes on over listing with store s: it suspends in the
\* index_file of the next file to index, or returns the total
SweepOn(t, s, listing, force, total) ==
    LET todo == SkipReturned(s, listing, force)
    IN IF todo = <<>>
       THEN /\ task' = [task EXCEPT ![t] = Idle]
            /\ ev' = Event("index_directory", "none", total,
                           SweepInfo("swept", force, <<>>, total))
       ELSE /\ task' = [task EXCEPT ![t] =
                    [pc |-> "sweep_embed_batch", path |-> todo[1],
                     content |-> fs[todo[1]],
                     chunks |-> chunk_markdown(fs[todo[1]], DefaultParams[1],
                                               DefaultParams[2]),
                     rest |-> Tail(todo), force |-> force, total |-> total]]
            /\ ev' = Event("index_directory_await", todo[1], 0,
                           SweepInfo("await", force, Tail(todo), total))

\* the sequences of distinct paths
AllListings ==
    {l \in UNION {[1..n -> Paths] : n \in 0..Cardinality(Paths)} :
        \A i \in DOMAIN l, j \in DOMAIN l : l[i] = l[j] => i = j}

\* the orders in which rglob may list the files that exist
Listings ==
    {l \in AllListings : {l[i] : i \in DOMAIN l} = {p \in Paths : fs[p] # Absent}}

\* exists tells whether the directory exists; it does when it has a file
IndexDirectoryBegin(t, exists, listing, force) ==
    /\ task[t].pc = "idle"
    /\ listing \in Listings
    /\ (listing # <<>>) => exists
    /\ UNCHANGED <<fs, db, disk, model, _dims>>
    /\ IF ~exists
       THEN /\ ev' = Event("index_directory", "none", 0,
                           SweepInfo("nodir", force, <<>>, 0))
            /\ UNCHANGED task
       ELSE SweepOn(t, db, listing, force, 0)

\* embed_batch returns to the index_file of the sweep
IndexDirectoryResume(t) ==
    /\ task[t].pc = "sweep_embed_batch"
    /\ UNCHANGED <<fs, model, _dims>>
    /\ LET p == task[t].path
           chunks == task[t].chunks
           written == ReplaceRows(db, p, chunks, EmbedBatch(TextsOf(chunks)),
                                  model)
           done == InsertFile(written, p, _file_hash(fs[p]), Len(fs[p]))
       IN IF fs[p] = Absent
          THEN \* path.stat() raises and the exception leaves the sweep
               /\ db' = written
               /\ disk' = disk
               /\ task' = [task EXCEPT ![t] = Idle]
               /\ ev' = Raise("index_directory", p, 0,
                              SweepInfo("stat", task[t].force, task[t].rest,
                                        task[t].total))
          ELSE /\ db' = done
               /\ disk' = done
               /\ SweepOn(t, done, task[t].rest, task[t].force,
                          task[t].total + Len(chunks))

\* embed_batch raises: index_directory has no handler, the exception
\* leaves index_file and the loop
IndexDirectoryEmbedRaise(t) ==
    /\ task[t].pc = "sweep_embed_batch"
    /\ ev' = Raise("index_directory", task[t].path, 0,
                   SweepInfo("embedding", task[t].force, task[t].rest,
                             task[t].total))
    /\ task' = [task EXCEPT ![t] = Idle]
    /\ UNCHANGED <<fs, db, disk, model, _dims>>

ContentsDir == {DocS1, DocS2}

NextDir ==
    \/ \E p \in Paths, c \in ContentsDir : FileWrite(p, c)
    \/ \E p \in Paths : FileDelete(p)
    \/ \E p \in Paths : IndexFileBegin(1, p, FALSE, DefaultParams)
    \/ IndexFileResume(1)
    \/ \E exists \in BOOLEAN, listing \in AllListings, force \in BOOLEAN :
            IndexDirectoryBegin(1, exists, listing, force)
    \/ IndexDirectoryResume(1)
    \/ IndexDirectoryEmbedRaise(1)

SpecDir == Init /\ [][NextDir]_vars

(***************************************************************************)
(* index_file on documents of every shape, for what chunk_markdown gives   *)
(***************************************************************************)
\* lines of 0, 1, 12, 29 and 31 characters
Line29 == <<"a">> \o Rep(<<Filler>>, 28)
Line31 == <<"b">> \o Rep(<<Filler>>, 30)
Line40 == <<"c">> \o Rep(<<Filler>>, 39)
LineKinds == {<<>>, <<"a">>, LineA, Line29, Line31}

\* the documents have up to MaxLines lines
MaxLines == 4
DocsOfLines(n) == {JoinLines(ls) : ls \in [1..n -> LineKinds]}

\* "A\nB\nC\nD\nE\n"
DocFive == <<"A", NL, "B", NL, "C", NL, "D", NL, "E", NL>>

\* documents with a line longer than the 32 characters of the least max_chars
DocsLong == {JoinLines(<<x, Line40, y>>) : x, y \in {<<"a">>, LineA}}

DocsChunked ==
    UNION {DocsOfLines(n) : n \in 1..MaxLines} \cup {DocFive} \cup DocsLong

\* the (max_tokens, overlap_tokens) pairs tried; <<400, 80>> is the default
ParamsChunked == {<<1, 0>>, <<1, 1>>, <<8, 4>>, <<8, 8>>, <<400, 80>>}

InitChunk ==
    /\ fs \in {[p \in Paths |-> IF p = "p1" THEN d ELSE Absent] :
                    d \in DocsChunked}
    /\ db = EmptyStore
    /\ disk = EmptyStore
    /\ model = "m1"
    /\ task = [t \in Tasks |-> Idle]
    /\ ev = Event("init", "none", 0, <<>>)
    /\ _dims = 0

NextChunk ==
    \/ \E params \in ParamsChunked : IndexFileBegin(1, "p1", FALSE, params)
    \/ IndexFileResume(1)
    \/ GetStats

SpecChunk == InitChunk /\ [][NextChunk]_vars

(***************************************************************************)
(* One database used under two embedding models, one manager after the     *)
(* other                                                                   *)
(***************************************************************************)
Models == {"m1", "m2"}

\* close(), then MemoryManager(db_path, provider) with the provider of
\* another model: the new connection sees what was committed
Reopen(m) ==
    /\ \A t \in Tasks : task[t].pc = "idle"
    /\ m # model
    /\ model' = m
    /\ db' = disk
    /\ ev' = Event("reopen", "none", 0, <<>>)
    /\ UNCHANGED <<fs, disk, task, _dims>>

ContentsModels(p) == IF p = "p1" THEN {DocD1} ELSE {DocS1}
QueriesModels == {<<"a">>, <<"b">>}
ArgsModels == {DefaultArgs, SearchArgs(6, Threshold(0), 7, 3)}

NextModels ==
    \/ \E p \in Paths : \E c \in ContentsModels(p) : FileWrite(p, c)
    \/ \E p \in Paths, force \in BOOLEAN, params \in ChunkParams :
            IndexFileBegin(1, p, force, params)
    \/ IndexFileResume(1)
    \/ \E q \in QueriesModels, args \in ArgsModels : SearchBegin(1, q, args)
    \/ SearchResume(1)
    \/ \E m \in Models : Reopen(m)

SpecModels == Init /\ [][NextModels]_vars

(***************************************************************************)
(* search with the default weights and threshold over a file of five       *)
(* chunks, of which the first is the only one to hold both "a" and "b" and *)
(* the only one whose vector is not that of the query "a b"                *)
(***************************************************************************)
DocSix == JoinLines(<<LineB, LineA, LineA, LineA, LineA, LineA>>)
ContentsDefaults == {DocSix, DocD1}
ArgsDefaults ==
    {SearchArgs(n, DefaultArgs.min_score, DefaultArgs.vector_weight,
                DefaultArgs.text_weight) : n \in 0..MaxResultsTried}

NextDefaults ==
    \/ \E c \in ContentsDefaults : FileWrite("p1", c)
    \/ \E params \in ChunkParams : IndexFileBegin(1, "p1", FALSE, params)
    \/ IndexFileResume(1)
    \/ \E q \in Queries, args \in ArgsDefaults : SearchBegin(1, q, args)
    \/ SearchResume(1)
    \/ SearchResumeRejected(1)

SpecDefaults == Init /\ [][NextDefaults]_vars

(***************************************************************************)
(* index_file over a backend whose embed_batch may return fewer vectors    *)
(* than it was given texts (`[item.embedding for item in response.data]`). *)
(***************************************************************************)
FewerTried == {0, 1}

\* index_file from the return of embed_batch with the first n vectors only
IndexFileResumeFewer(t, n) ==
    /\ task[t].pc = "embed_batch"
    /\ n < Len(task[t].chunks)
    /\ LET p == task[t].path
           chunks == task[t].chunks
           embeddings == Take(EmbedBatch(TextsOf(chunks)), n)
           written == ReplaceRows(db, p, chunks, embeddings, model)
           info(why) == EndInfo(task[t].params, task[t].content, why,
                                Len(ChunksOfPath(db, p)))
       IN IF fs[p] = Absent
          THEN /\ db' = written
               /\ disk' = disk
               /\ ev' = Raise("index_file", p, 0, info("stat"))
          ELSE /\ db' = InsertFile(written, p, _file_hash(fs[p]), Len(fs[p]))
               /\ disk' = db'
               /\ ev' = Event("index_file", p, Len(chunks), info("fewer"))
    /\ task' = [task EXCEPT ![t] = Idle]
    /\ UNCHANGED <<fs, model, _dims>>

ContentsFewer == {DocS1, DocS2, DocD1, DocD2}

NextFewer ==
    \/ \E c \in ContentsFewer : FileWrite("p1", c)
    \/ FileDelete("p1")
    \/ \E force \in BOOLEAN, params \in ChunkParams :
            IndexFileBegin(1, "p1", force, params)
    \/ IndexFileResume(1)
    \/ \E n \in FewerTried : IndexFileResumeFewer(1, n)

SpecFewer == Init /\ [][NextFewer]_vars

(***************************************************************************)
(* SiliconFlowEmbedding: the backend that records its dimensions from the  *)
(* first vectors it gets. The vectors come from the server, so a call that *)
(* returns is given any list of vectors, of any length up to MaxDims.      *)
(***************************************************************************)
MaxDims == 2
MaxTexts == 2
Vectors == UNION {[1..n -> {1}] : n \in 0..MaxDims}
\* the lists `[item.embedding for item in response.data]` for n texts
Responses(n) == UNION {[1..k -> Vectors] : k \in 0..n}

\* the vector is recorded although dimensions are known
embed_dims_overwritten(dims, emb) == Len(emb)

\* if not self._dims: self._dims = len(emb)
embed_dims(dims, emb) == IF dims = 0 THEN Len(emb) ELSE dims

\* if embs and not self._dims: self._dims = len(embs[0])
embed_batch_dims(dims, embs) ==
    IF Len(embs) > 0 /\ dims = 0 THEN Len(embs[1]) ELSE dims

\* what the events of this backend tell: dimensions before the call ended,
\* whether a call had returned before it (succeeded), and whether a call
\* had returned a first vector of a length other than 0 before it (gave)
FirstLen(e) ==
    IF e.op = "siliconflow_embed" THEN Len(e.ret)
    ELSE IF Len(e.ret) > 0 THEN Len(e.ret[1]) ELSE 0
SiliconInfo ==
    [before |-> _dims,
     succeeded |-> ev.op # "init" /\ (ev.info.succeeded \/ ~ev.raised),
     gave |-> ev.op # "init"
                /\ (ev.info.gave \/ (~ev.raised /\ FirstLen(ev) > 0))]

\* embed, up to `await super().embed(text)`
SiliconEmbedBegin(t) ==
    /\ task[t].pc = "idle"
    /\ task' = [task EXCEPT ![t] = [pc |-> "siliconflow_embed", texts |-> 1]]
    /\ UNCHANGED <<fs, db, disk, model, ev, _dims>>

\* embed, from the return of super().embed with the vector emb
SiliconEmbedResume(t, emb) ==
    /\ task[t].pc = "siliconflow_embed"
    /\ _dims' = embed_dims(_dims, emb)
    /\ ev' = Event("siliconflow_embed", "none", emb, SiliconInfo)
    /\ task' = [task EXCEPT ![t] = Idle]
    /\ UNCHANGED <<fs, db, disk, model>>

\* embed_batch of n texts, up to `await super().embed_batch(texts)`
SiliconEmbedBatchBegin(t, n) ==
    /\ task[t].pc = "idle"
    /\ task' = [task EXCEPT ![t] =
                    [pc |-> "siliconflow_embed_batch", texts |-> n]]
    /\ UNCHANGED <<fs, db, disk, model, ev, _dims>>

\* embed_batch, from the return of super().embed_batch with the list embs
SiliconEmbedBatchResume(t, embs) ==
    /\ task[t].pc = "siliconflow_embed_batch"
    /\ embs \in Responses(task[t].texts)
    /\ _dims' = embed_batch_dims(_dims, embs)
    /\ ev' = Event("siliconflow_embed_batch", "none", embs, SiliconInfo)
    /\ task' = [task EXCEPT ![t] = Idle]
    /\ UNCHANGED <<fs, db, disk, model>>

\* the call of the superclass raises (the request fails, or response.data
\* is empty in embed): the exception passes through
SiliconRaise(t) ==
    /\ task[t].pc \in {"siliconflow_embed", "siliconflow_embed_batch"}
    /\ ev' = Raise(task[t].pc, "none", <<>>, SiliconInfo)
    /\ task' = [task EXCEPT ![t] = Idle]
    /\ UNCHANGED <<fs, db, disk, model, _dims>>

NextSilicon ==
    \/ \E t \in Tasks : SiliconEmbedBegin(t)
    \/ \E t \in Tasks, emb \in Vectors : SiliconEmbedResume(t, emb)
    \/ \E t \in Tasks, n \in 0..MaxTexts : SiliconEmbedBatchBegin(t, n)
    \/ \E t \in Tasks, embs \in Responses(MaxTexts) :
            SiliconEmbedBatchResume(t, embs)
    \/ \E t \in Tasks : SiliconRaise(t)

SpecSilicon == Init /\ [][NextSilicon]_vars

(***************************************************************************)
(* What the claims speak of                                                *)
(***************************************************************************)
RowSet(seq) == {seq[k] : k \in 1..Len(seq)}

\* the chunk rows that indexing content c under path p stores
GenRows(p, c, params) ==
    LET chunks == chunk_markdown(c, params[1], params[2])
    IN {ChunkRow(p, chunks[k], EmbedVector(chunks[k].text), model) :
            k \in 1..Len(chunks)}

\* store s holds for p the file record and exactly the chunks of content c
HoldsGeneration(s, p, c, params) ==
    /\ s.files[p] # NoRow
    /\ s.files[p].hash = Sha256(c)
    /\ RowSet(ChunksOfPath(s, p)) = GenRows(p, c, params)

\* what a store holds for a path
Generation(s, p) == <<s.files[p], ChunksOfPath(s, p), FtsOfPath(s, p)>>

OneByteDiff(a, b) ==
    /\ Len(a) = Len(b)
    /\ Cardinality({k \in 1..Len(a) : a[k] # b[k]}) = 1

\* the step starts an index_file call: it returns at once or suspends
BeginsIndexFile(e) ==
    /\ e.op \in {"index_file", "await_embed_batch"}
    /\ e.info.why \in {"missing", "unchanged", "nochunks", "await"}

TypeOK ==
    /\ \A p \in Paths : fs[p] \in Contents \cup {Absent}
    /\ \A t \in Tasks :
        task[t].pc \in {"idle", "embed_batch", "embed", "sweep_embed_batch",
                         "siliconflow_embed", "siliconflow_embed_batch"}

\* C1: in every committed store, the hash of a path's file record is the
\* SHA-256 of the content whose chunks are the chunks stored for that path.
C1_HashMatchesChunks ==
    \A p \in Paths :
        disk.files[p] # NoRow =>
            \E c \in Contents, params \in ChunkParams :
                HoldsGeneration(disk, p, c, params)

\* C2: after an index_file call that found the file changed (or was forced)
\* and returned, the chunks stored for the path are exactly the chunks of
\* the content the call read, also when that content has no chunk.
C2_ExactlyNewChunks ==
    (ev.op = "index_file" /\ ~ev.raised /\ ev.info.passed) =>
        RowSet(ChunksOfPath(db, ev.path))
            = GenRows(ev.path, ev.info.content, ev.info.params)

\* C3: an index_file that fails leaves, for its path, either what the store
\* held before or a complete new generation.
C3_NoPartialReplace ==
    [][(ev'.op = "index_file" /\ ev'.raised) =>
          \/ Generation(db', ev'.path) = Generation(db, ev'.path)
          \/ \E c \in Contents, params \in ChunkParams :
                HoldsGeneration(db', ev'.path, c, params)]_vars

\* C4: when the store holds the generation of a content (a successful
\* index_file of it), an index_file without force on the same content
\* returns 0 and writes nothing, and a call that gets to index the same
\* content again (a forced one) leaves the ids and the number of the path's
\* chunks as they were.
C4_Idempotent ==
    [][/\ (/\ BeginsIndexFile(ev')
           /\ ~ev'.info.force
           /\ fs[ev'.path] # Absent
           /\ HoldsGeneration(db, ev'.path, fs[ev'.path], ev'.info.params))
          => (/\ ev'.op = "index_file" /\ ev'.ret = 0 /\ ~ev'.raised
              /\ db' = db /\ disk' = disk)
       /\ (/\ ev'.op = "index_file"
           /\ ev'.info.content # Absent
           /\ HoldsGeneration(db, ev'.path, ev'.info.content,
                              ev'.info.params))
          => (/\ IdsOfPath(db', ev'.path) = IdsOfPath(db, ev'.path)
              /\ Len(ChunksOfPath(db', ev'.path))
                    = Len(ChunksOfPath(db, ev'.path)))]_vars

\* a second call without force found the content unchanged and returned 0
C4_Witness ==
    /\ ev.op = "index_file" /\ ev.ret = 0 /\ ev.info.why = "unchanged"
    /\ HoldsGeneration(db, ev.path, ev.info.content, ev.info.params)
    /\ Len(ChunksOfPath(db, ev.path)) = 2

\* C5: after one byte of an indexed file changed, an index_file that finds
\* the change (without force) stores a different file hash, replaces the
\* chunks of the path by those of the new content, and none of the earlier
\* chunk ids is left.
C5_ChangeDetected ==
    [][\A c0 \in Contents :
        (/\ ev'.op = "index_file" /\ ~ev'.raised
         /\ \/ ev'.info.why = "nochunks" /\ ~ev'.info.force
            \/ ev'.info.why = "indexed"
         /\ ev'.info.content = fs[ev'.path]
         /\ fs[ev'.path] # Absent
         /\ OneByteDiff(c0, ev'.info.content)
         /\ HoldsGeneration(db, ev'.path, c0, ev'.info.params))
        => (/\ db'.files[ev'.path].hash # Sha256(c0)
            /\ RowSet(ChunksOfPath(db', ev'.path))
                 = GenRows(ev'.path, ev'.info.content, ev'.info.params)
            /\ IdsOfPath(db', ev'.path) \cap IdsOfPath(db, ev'.path) = {})
      ]_vars

\* C6: when the embedding backend raises during index_file or search, the
\* call raises as well and the store (connection view and committed state)
\* is as it was; a call suspended in the backend has written nothing.
C6_EmbedFailureLeavesStore ==
    [][/\ (ev'.op \in {"index_file", "search"} /\ ev'.info.why = "embedding")
          => (ev'.raised /\ db' = db /\ disk' = disk)
       /\ (ev'.op \in {"await_embed_batch", "await_embed"})
          => (db' = db /\ disk' = disk)]_vars

\* embed_batch raised while re-indexing a path whose chunks are stored
C6_Witness ==
    /\ ev.op = "index_file" /\ ev.raised /\ ev.info.why = "embedding"
    /\ Len(ChunksOfPath(db, ev.path)) > 0
    /\ ~HoldsGeneration(db, ev.path, ev.info.content, ev.info.params)

\* C7: no two index_file calls for the same path are in progress at once.
C7_NoInterleaving ==
    \A t1 \in Tasks, t2 \in Tasks :
        (t1 # t2 /\ task[t1].pc = "embed_batch" /\ task[t2].pc = "embed_batch")
            => task[t1].path # task[t2].path

\* the results of a search that belong to path p
ResultsOfPath(results, p) == SelectSeq(results, LAMBDA r : r.path = p)

\* C8: the chunks of one path that a search returns all come from one
\* generation: they are chunks of a single content.
C8_SingleGeneration ==
    (ev.op = "search" /\ ~ev.raised) =>
        \A p \in Paths :
            \E c \in Contents, params \in ChunkParams :
                \A k \in 1..Len(ResultsOfPath(ev.ret, p)) :
                    \E row \in GenRows(p, c, params) :
                        LET r == ResultsOfPath(ev.ret, p)[k]
                        IN /\ r.id = row.id /\ r.text = row.text
                           /\ r.start_line = row.start_line
                           /\ r.end_line = row.end_line

\* a search returned two chunks of a path while an index_file of that path,
\* holding another content than the one stored, was suspended
C8_Witness ==
    /\ ev.op = "search" /\ ~ev.raised
    /\ \E t \in Tasks :
        /\ task[t].pc = "embed_batch"
        /\ task[t].path \in ev.info.inflight
        /\ Len(ResultsOfPath(ev.ret, task[t].path)) >= 2
        /\ RowSet(ChunksOfPath(db, task[t].path))
             # GenRows(task[t].path, task[t].content, task[t].params)

\* the fields a chunk row and its lexical entry share
Shared(r) ==
    [id |-> r.id, path |-> r.path, model |-> r.model,
     start_line |-> r.start_line, end_line |-> r.end_line, text |-> r.text]

CountIn(seq, x) == Cardinality({k \in 1..Len(seq) : Shared(seq[k]) = x})

\* C9: in every committed store, the lexical index and the chunks table
\* hold the same rows (id, path, model, line range, text), each exactly once.
C9_Lockstep ==
    \A x \in {Shared(r) : r \in RowSet(disk.chunks) \cup RowSet(disk.fts)} :
        /\ CountIn(disk.chunks, x) = 1
        /\ CountIn(disk.fts, x) = 1
        /\ Cardinality({k \in 1..Len(disk.fts) : disk.fts[k].id = x.id}) = 1

\* a committed re-index: an index_file deleted the rows of the path and
\* stored two chunks
C9_Witness ==
    /\ ev.op = "index_file" /\ ev.info.why = "indexed"
    /\ ev.info.replaced > 0
    /\ Len(disk.chunks) = 2 /\ Len(disk.fts) = 2

\* C10: no result of search has a composite score below min_score.
C10_Threshold ==
    (ev.op = "search" /\ ~ev.raised) =>
        \A k \in 1..Len(ev.ret) : ev.ret[k].score >= ev.info.args.min_score

\* a search returned a result and left out a stored chunk for its score
C10_Witness ==
    /\ ev.op = "search" /\ ~ev.raised
    /\ ev.info.args.min_score > 0
    /\ Len(ev.ret) >= 1
    /\ Len(ev.ret) < ev.info.args.max_results
    /\ Len(ev.ret) < Len(db.chunks)

\* C11: the results of a search are in non-increasing order of composite
\* score and there are at most max_results of them.
C11_SortedAndCapped ==
    (ev.op = "search" /\ ~ev.raised) =>
        /\ Len(ev.ret) <= ev.info.args.max_results
        /\ \A k \in 1..(Len(ev.ret) - 1) :
                ev.ret[k].score >= ev.ret[k + 1].score

\* a search capped at two results put first a chunk that the vector phase
\* had ranked behind the second
C11_Witness ==
    /\ ev.op = "search" /\ ~ev.raised
    /\ ev.info.args.max_results = 2 /\ Len(ev.ret) = 2
    /\ Len(db.chunks) > 2
    /\ ev.ret[1].score > ev.ret[2].score
    /\ OrZero(ev.ret[1].vector_score) < OrZero(ev.ret[2].vector_score)

\* the score a phase gave to the chunk id, 0 when the chunk is not among
\* the candidates of the phase
PhaseScore(results, id) ==
    IF \E k \in 1..Len(results) : results[k].id = id
    THEN results[CHOOSE k \in 1..Len(results) : results[k].id = id].score
    ELSE 0

\* the candidates of the two phases of the search that ev tells of
VectorCandidates ==
    search_vector(db, EmbedVector(ev.info.query), model,
                  ev.info.args.max_results * candidate_multiplier)
KeywordCandidates ==
    IF ev.info.why = "rejected" THEN <<>>
    ELSE search_keyword(db, ev.info.query, model,
                        ev.info.args.max_results * candidate_multiplier)

\* C12: the score of every result is vector_weight * v + text_weight * t,
\* v and t being the scores of the chunk in the vector and the lexical
\* phase, 0 for a phase without the chunk; with weights 0.7 and 0.3, v = 1
\* and t = 0 the score is 0.7.
C12_CompositeScore ==
    (ev.op = "search" /\ ~ev.raised) =>
        \A k \in 1..Len(ev.ret) :
            LET v == PhaseScore(VectorCandidates, ev.ret[k].id)
                t == PhaseScore(KeywordCandidates, ev.ret[k].id)
                a == ev.info.args
            IN /\ ev.ret[k].score = a.vector_weight * v + a.text_weight * t
               /\ (a.vector_weight = 7 /\ a.text_weight = 3
                       /\ v = ScoreScale /\ t = 0)
                  => ev.ret[k].score = Threshold(70)

\* a search returned a chunk that only the lexical phase had found
C12_Witness ==
    /\ ev.op = "search" /\ ~ev.raised
    /\ \E k \in 1..Len(ev.ret) :
        /\ ev.ret[k].vector_score = None
        /\ ev.ret[k].score > 0
        /\ \A j \in 1..Len(VectorCandidates) :
                VectorCandidates[j].id # ev.ret[k].id

\* what the vector phase alone gives: its candidates scored by
\* vector_weight * similarity, filtered, sorted and cut
VectorAlone(s, query_embedding, model_name, a) ==
    LET vector_results ==
            search_vector(s, query_embedding, model_name,
                          a.max_results * candidate_multiplier)
        scored == [k \in 1..Len(vector_results) |->
            [vector_results[k] EXCEPT
                !.score = a.vector_weight * vector_results[k].score]]
    IN Take(SortByScoreDesc(SelectSeq(scored,
                LAMBDA r : r.score >= a.min_score)), a.max_results)

\* C14: a search whose query has no word token, or whose lexical query the
\* store rejects, does not raise and returns what the vector phase alone
\* gives.
C14_NoLexicalResults ==
    (/\ ev.op = "search"
     /\ ev.info.why \in {"searched", "rejected"}
     /\ (Tokens(ev.info.query) = <<>> \/ ev.info.why = "rejected"))
        => /\ ~ev.raised
           /\ ev.ret = VectorAlone(db, EmbedVector(ev.info.query), model,
                                   ev.info.args)

\* a search with a query without word token returned chunks of a store
\* that has lexical entries
C14_Witness ==
    /\ ev.op = "search" /\ ~ev.raised /\ ev.info.why = "searched"
    /\ Tokens(ev.info.query) = <<>>
    /\ Len(ev.ret) >= 2
    /\ Len(db.fts) >= 2

\* the rows of store s that were stored under model m
OnlyModel(s, m) ==
    [s EXCEPT !.chunks = SelectSeq(@, LAMBDA r : r.model = m),
              !.fts = SelectSeq(@, LAMBDA r : r.model = m)]

\* C13: every result of a search is a chunk stored under the manager's
\* model, and the search returns what it would return if the chunks of the
\* other models were not in the store.
C13_ModelScoped ==
    (ev.op = "search" /\ ~ev.raised /\ ev.info.why = "searched") =>
        /\ \A k \in 1..Len(ev.ret) :
                \E row \in RowSet(db.chunks) :
                    row.id = ev.ret[k].id /\ row.model = model
        /\ ev.ret = hybrid_search(OnlyModel(db, model),
                                  EmbedVector(ev.info.query), ev.info.query,
                                  model, ev.info.args)

\* a search returned a chunk while the store held, under another model, a
\* chunk that has the query's word and is as similar to the query
C13_Witness ==
    /\ ev.op = "search" /\ ~ev.raised
    /\ Len(ev.ret) >= 1
    /\ \E row \in RowSet(db.chunks) :
        /\ row.model # model
        /\ FtsMatch(row.text, build_fts_query(ev.info.query))
        /\ cosine_similarity(EmbedVector(ev.info.query), row.embedding)
              >= OrZero(ev.ret[1].vector_score)

\* the chunks that the index_file suspended in embed_batch got from
\* chunk_markdown, and the lines of the content it read
ChunksMade == task[1].chunks
LinesRead == SplitLines(task[1].content)

Covered(chunks, i) ==
    \E k \in 1..Len(chunks) :
        chunks[k].start_line <= i /\ i <= chunks[k].end_line

\* C15: when chunk_markdown returns a chunk, every line index of the
\* document lies in the range of some chunk and the last chunk ends at the
\* last line of the document.
C15_Coverage ==
    (task[1].pc = "embed_batch") =>
        /\ \A i \in 0..(Len(LinesRead) - 1) : Covered(ChunksMade, i)
        /\ ChunksMade[Len(ChunksMade)].end_line = Len(LinesRead) - 1

\* the indexes of the lines that have a character other than whitespace
TextLines(lines) == {i \in 0..(Len(lines) - 1) : StripNonEmpty(lines[i + 1])}

\* C15 as amended: when chunk_markdown returns a chunk, every line that has
\* a character other than whitespace lies in the range of some chunk, every
\* range lies within the document, and the last chunk ends at or after the
\* last such line.
C15_CoverageOfText ==
    (task[1].pc = "embed_batch") =>
        /\ \A i \in TextLines(LinesRead) :
            /\ Covered(ChunksMade, i)
            /\ ChunksMade[Len(ChunksMade)].end_line >= i
        /\ \A k \in 1..Len(ChunksMade) :
            /\ 0 <= ChunksMade[k].start_line
            /\ ChunksMade[k].start_line <= ChunksMade[k].end_line
            /\ ChunksMade[k].end_line <= Len(LinesRead) - 1

\* a document was cut into three chunks and its last lines, blank, are in
\* none of them
C15_Witness ==
    /\ task[1].pc = "embed_batch"
    /\ Len(ChunksMade) >= 3
    /\ ChunksMade[Len(ChunksMade)].end_line < Len(LinesRead) - 1

\* C16: two chunks that are not consecutive share no line, and the lines
\* two consecutive chunks share are the last of the first and the first of
\* the second.
C16_OnlyNeighboursOverlap ==
    (task[1].pc = "embed_batch") =>
        \A i \in 1..Len(ChunksMade), j \in 1..Len(ChunksMade) :
            /\ j > i + 1 =>
                    ChunksMade[i].end_line < ChunksMade[j].start_line
            /\ j = i + 1 =>
                    /\ ChunksMade[i].start_line <= ChunksMade[j].start_line
                    /\ ChunksMade[i].end_line <= ChunksMade[j].end_line

\* get_stats was called on the store that holds the file "A\nB\nC\nD\nE\n"
StatsOfDocFive ==
    /\ ev.op = "get_stats"
    /\ fs["p1"] = DocFive
    /\ db.files["p1"] # NoRow
    /\ db.files["p1"].hash = Sha256(DocFive)

\* C17: for the file "A\nB\nC\nD\nE\n" there are a max_tokens and an
\* overlap_tokens with which index_file stores exactly two chunks that share
\* exactly one line, so that get_stats tells a chunk_count of 2.
C17_TwoChunks ==
    StatsOfDocFive =>
        \E params \in ParamsChunked :
            LET chunks == chunk_markdown(DocFive, params[1], params[2])
            IN /\ Len(chunks) = 2
               /\ chunks[2].start_line = chunks[1].end_line

\* C17 as amended: for the file "A\nB\nC\nD\nE\n" index_file stores, with
\* every max_tokens and overlap_tokens, one chunk of the lines 0 to 5, and
\* get_stats tells a chunk_count of 1.
C17_OneChunk ==
    StatsOfDocFive =>
        /\ ev.ret.chunk_count = 1
        /\ Len(db.chunks) = 1
        /\ db.chunks[1].start_line = 0
        /\ db.chunks[1].end_line = 5

\* get_stats after the file was indexed
C17_Witness ==
    /\ StatsOfDocFive
    /\ ev.ret.file_count = 1
    /\ Len(db.chunks) > 0

\* C18: index_file on a path that does not exist and index_directory on a
\* directory that does not exist return 0, do not raise and leave the store
\* (connection view and committed state) as it was.
C18_MissingIsBenign ==
    [][/\ (BeginsIndexFile(ev') /\ fs[ev'.path] = Absent)
          => (/\ ev'.op = "index_file" /\ ev'.ret = 0 /\ ~ev'.raised
              /\ db' = db /\ disk' = disk)
       /\ (ev'.op = "index_directory" /\ ev'.info.why = "nodir")
          => (/\ ev'.ret = 0 /\ ~ev'.raised
              /\ db' = db /\ disk' = disk)]_vars

\* index_file was called for a file that had been indexed and then
\* deleted: its record and its chunks are in the store
C18_Witness ==
    /\ ev.op = "index_file" /\ ev.info.why = "missing"
    /\ fs[ev.path] = Absent
    /\ disk.files[ev.path] # NoRow
    /\ Len(ChunksOfPath(disk, ev.path)) > 0
    /\ Len(FtsOfPath(disk, ev.path)) > 0

\* the files that a sweep had not reached and that have chunks to index
LeftToIndex(listing) ==
    {p \in RowSet(listing) :
        /\ fs[p] # Absent
        /\ Len(chunk_markdown(fs[p], DefaultParams[1], DefaultParams[2])) > 0}

\* C19: an embedding failure on one file of a sweep does not end
\* index_directory: the call does not raise and the files listed after the
\* failing one are indexed.
C19_SweepContinues ==
    (/\ ev.op = "index_directory"
     /\ ev.info.why = "embedding"
     /\ LeftToIndex(ev.info.rest) # {})
        => /\ ~ev.raised
           /\ \A p \in LeftToIndex(ev.info.rest) :
                HoldsGeneration(db, p, fs[p], DefaultParams)

\* C20: right after clear(), get_stats tells 0 files and 0 chunks, a search
\* returns nothing, and index_file without force on a file whose content
\* the store held before goes on to index it; an index_file that completes
\* on a path without file record returns the number of its chunks, which is
\* greater than 0, and stores that many.
C20_AfterClear ==
    [][/\ (ev.op = "clear" /\ ev'.op = "get_stats")
          => (ev'.ret.file_count = 0 /\ ev'.ret.chunk_count = 0)
       /\ (ev.op = "clear" /\ ev'.op = "search" /\ ~ev'.raised)
          => ev'.ret = <<>>
       /\ (/\ ev.op = "clear"
           /\ BeginsIndexFile(ev')
           /\ ~ev'.info.force
           /\ fs[ev'.path] # Absent
           /\ HoldsGeneration(ev.info.before, ev'.path, fs[ev'.path],
                              ev'.info.params))
          => (/\ ev'.op = "await_embed_batch"
              /\ \E t \in Tasks :
                    /\ task'[t].pc = "embed_batch"
                    /\ task'[t].path = ev'.path
                    /\ task'[t].content = fs[ev'.path]
                    /\ Len(task'[t].chunks) > 0)
       /\ (/\ ev'.op = "index_file" /\ ev'.info.why = "indexed"
           /\ db.files[ev'.path] = NoRow)
          => (/\ ev'.ret > 0
              /\ ev'.ret = Len(chunk_markdown(ev'.info.content,
                                              ev'.info.params[1],
                                              ev'.info.params[2]))
              /\ Len(ChunksOfPath(db', ev'.path)) = ev'.ret)]_vars

\* clear() emptied a store that held the two chunks of a file that is
\* still there, unchanged
C20_Witness ==
    /\ ev.op = "clear"
    /\ db = EmptyStore /\ disk = EmptyStore
    /\ \E p \in Paths, params \in ChunkParams :
        /\ fs[p] # Absent
        /\ HoldsGeneration(ev.info.before, p, fs[p], params)
        /\ Len(ChunksOfPath(ev.info.before, p)) = 2

\* the ids of the merge in its order: the vector candidates, then the
\* lexical candidates that are not among them
MergeOrderOf(vector_results, keyword_results) ==
    LET vector_ids == [k \in 1..Len(vector_results) |->
                            vector_results[k].id]
        keyword_only == SelectSeq(keyword_results, LAMBDA r :
                            \A k \in 1..Len(vector_ids) : vector_ids[k] # r.id)
    IN vector_ids \o [k \in 1..Len(keyword_only) |-> keyword_only[k].id]
MergeOrder == MergeOrderOf(VectorCandidates, KeywordCandidates)

\* the composite scores of the chunks of the merge, in its order
MergeScores ==
    LET vector_results == VectorCandidates
        keyword_results == KeywordCandidates
        order == MergeOrderOf(vector_results, keyword_results)
    IN [m \in 1..Len(order) |->
            [id |-> order[m],
             score |->
                ev.info.args.vector_weight
                    * PhaseScore(vector_results, order[m])
                + ev.info.args.text_weight
                    * PhaseScore(keyword_results, order[m])]]

\* C21: of the chunks with one composite score, search returns those that
\* come first in merge order (vector candidates as the vector phase ranked
\* them, then the chunks only the lexical phase found, in its order), and
\* returns them in that order.
C21_TiesInMergeOrder ==
    (ev.op = "search" /\ ~ev.raised /\ Len(ev.ret) > 0) =>
        LET merge == MergeScores
        IN \A k \in 1..Len(ev.ret) :
            \A m \in 1..Len(merge), n \in 1..Len(merge) :
                (/\ m < n
                 /\ merge[n].id = ev.ret[k].id
                 /\ merge[m].score = ev.ret[k].score)
                    => \E j \in 1..(k - 1) : ev.ret[j].id = merge[m].id

\* a search for one result returned a vector candidate whose score a chunk
\* found only by the lexical phase had as well
C21_Witness ==
    /\ ev.op = "search" /\ ~ev.raised
    /\ Len(ev.ret) = 1
    /\ ev.ret[1].score > 0
    /\ \E m \in 1..Len(MergeScores) :
        /\ m > Len(VectorCandidates)
        /\ MergeScores[m].score = ev.ret[1].score

\* C28: of two hits of the lexical phase, the one ranked as more relevant
\* (earlier in the order by bm25 rank) has a text_score at least as high,
\* and every text_score is in (0, 1].
C28_TextScoreMonotone ==
    (ev.op = "search" /\ ~ev.raised /\ ev.info.why = "searched") =>
        /\ \A i \in 1..Len(KeywordCandidates) :
            /\ KeywordCandidates[i].score > 0
            /\ KeywordCandidates[i].score <= ScoreScale
        /\ \A i \in 1..Len(KeywordCandidates),
              j \in 1..Len(KeywordCandidates) :
                i < j => KeywordCandidates[i].score
                            >= KeywordCandidates[j].score

\* the search ran with vector_weight 0.7, text_weight 0.3, min_score 0.35
DefaultScoring ==
    /\ ev.info.args.vector_weight = DefaultArgs.vector_weight
    /\ ev.info.args.text_weight = DefaultArgs.text_weight
    /\ ev.info.args.min_score = DefaultArgs.min_score

\* C29: with the default weights and threshold every result of a search is
\* a candidate of the vector phase.
C29_DefaultsNeedVector ==
    (ev.op = "search" /\ ~ev.raised /\ DefaultScoring) =>
        \A k \in 1..Len(ev.ret) :
            \E j \in 1..Len(VectorCandidates) :
                VectorCandidates[j].id = ev.ret[k].id

\* a search with the defaults returned a chunk while the lexical phase had
\* found a chunk that the vector phase had not
C29_Witness ==
    /\ ev.op = "search" /\ ~ev.raised /\ DefaultScoring
    /\ Len(ev.ret) >= 1
    /\ Len(MergeOrder) > Len(VectorCandidates)

\* the lines first..last (0-based) of the document
LinesOf(lines, first, last) ==
    [k \in 1..(last - first + 1) |-> lines[first + k]]

RECURSIVE SizeOf(_)
\* the size of the lines: the length of each plus one
SizeOf(ls) == IF Len(ls) = 0 THEN 0 ELSE Len(ls[1]) + 1 + SizeOf(Tail(ls))

\* C22: the text of every chunk is the lines start_line..end_line of the
\* document joined by newlines, whole lines also when a line is longer than
\* max_chars, and has a character other than whitespace; the empty document
\* gives no chunk.
C22_ChunksAreWholeLines ==
    /\ (task[1].pc = "embed_batch") =>
            \A k \in 1..Len(ChunksMade) :
                /\ 0 <= ChunksMade[k].start_line
                /\ ChunksMade[k].start_line <= ChunksMade[k].end_line
                /\ ChunksMade[k].end_line < Len(LinesRead)
                /\ ChunksMade[k].text =
                        JoinLines(LinesOf(LinesRead, ChunksMade[k].start_line,
                                          ChunksMade[k].end_line))
                /\ StripNonEmpty(ChunksMade[k].text)
    /\ (ev.op \in {"index_file", "await_embed_batch"} /\ ev.info.passed
            /\ ev.info.content = <<>>)
        => ev.info.why = "nochunks"

\* a chunk of the document has a line longer than max_chars
C22_Witness ==
    /\ task[1].pc = "embed_batch"
    /\ Len(LinesRead) = 3
    /\ \E k \in 1..Len(ChunksMade) :
        /\ ChunksMade[k].start_line = 1
        /\ ChunksMade[k].end_line = 1
        /\ Len(ChunksMade[k].text) > max_chars_of(task[1].params[1])

\* the buffers closed while the document of the call was cut
ClosesMade ==
    closed_buffers(task[1].content, task[1].params[1], task[1].params[2])

\* the last n lines of the buffer
Suffix(ls, n) == SubSeq(ls, Len(ls) - n + 1, Len(ls))

\* the index of the last line of the buffer that follows the k-th closed
EndOfNext(closes, k) ==
    IF k < Len(closes) THEN closes[k + 1].at - 1 ELSE Len(LinesRead) - 1

\* C23: the seed taken from a closed buffer is the longest suffix of its
\* lines whose size is at most overlap_chars; the buffer that follows
\* starts at the first seed line, and so does its chunk; two consecutive
\* chunks share lines of at most overlap_chars characters, and none when
\* overlap_tokens is 0.
C23_SeedIsLongestSuffix ==
    (task[1].pc = "embed_batch") =>
        LET closes == ClosesMade
            overlap_chars == overlap_chars_of(task[1].params[2])
        IN /\ \A k \in 1..Len(closes) :
                LET c == closes[k]
                    n == Len(c.seed)
                IN /\ n <= Len(c.closed)
                   /\ c.seed = Suffix(c.closed, n)
                   /\ SizeOf(c.seed) <= overlap_chars
                   /\ n < Len(c.closed) =>
                        SizeOf(Suffix(c.closed, n + 1)) > overlap_chars
                   /\ c.closed = LinesOf(LinesRead, c.first, c.at - 1)
                   /\ c.next_start = c.at - n
                   /\ StripNonEmpty(JoinLines(LinesOf(LinesRead,
                            c.next_start, EndOfNext(closes, k)))) =>
                        \E j \in 1..Len(ChunksMade) :
                            /\ ChunksMade[j].start_line = c.next_start
                            /\ ChunksMade[j].end_line = EndOfNext(closes, k)
           /\ \A j \in 1..(Len(ChunksMade) - 1) :
                /\ SizeOf(LinesOf(LinesRead, ChunksMade[j + 1].start_line,
                                  ChunksMade[j].end_line)) <= overlap_chars
                /\ task[1].params[2] = 0 =>
                        ChunksMade[j].end_line < ChunksMade[j + 1].start_line

\* a buffer of three lines was closed, its last two lines were the seed, and
\* the chunk that follows starts at the first of them
C23_Witness ==
    /\ task[1].pc = "embed_batch"
    /\ Len(ClosesMade) >= 1
    /\ Len(ClosesMade[1].closed) = 3
    /\ Len(ClosesMade[1].seed) = 2
    /\ Len(ChunksMade) = 2
    /\ ChunksMade[2].start_line = 1

\* C30: a chunk of more than one line has a size of at most max_chars.
C30_ManyLinesWithinBudget ==
    (task[1].pc = "embed_batch") =>
        \A k \in 1..Len(ChunksMade) :
            ChunksMade[k].start_line < ChunksMade[k].end_line =>
                SizeOf(LinesOf(LinesRead, ChunksMade[k].start_line,
                               ChunksMade[k].end_line))
                    <= max_chars_of(task[1].params[1])

\* a call of the SiliconFlow backend has just ended
SiliconEnded == ev.op \in {"siliconflow_embed", "siliconflow_embed_batch"}

C24_ReturnsRowsStored ==
    [][(ev'.op = "index_file" /\ ~ev'.raised) =>
        LET resumed == task[1].pc = "embed_batch"
        IN /\ ev'.ret = (IF resumed THEN Len(ChunksOfPath(db', ev'.path))
                         ELSE 0)
           /\ ev'.ret = (IF resumed THEN Len(FtsOfPath(db', ev'.path))
                         ELSE 0)
           /\ (ev'.ret = 0) <=> ~resumed
           /\ ~resumed => (db' = db /\ disk' = disk)]_vars

\* index_file has just returned for a file that exists, no call is in
\* flight, and the file is as the call read it
ReturnedQuiet ==
    /\ ev.op = "index_file" /\ ~ev.raised
    /\ ev.info.why \in {"unchanged", "nochunks", "indexed"}
    /\ \A t \in Tasks : task[t].pc = "idle"
    /\ fs[ev.path] = ev.info.content

\* C26: when no index_file call is in flight and the file stays as it is,
\* the store holds for the path, after one more index_file without force,
\* exactly the chunks of the content of the file (none if it has none).
C26_Convergence ==
    ReturnedQuiet =>
        RowSet(ChunksOfPath(db, ev.path))
            = GenRows(ev.path, fs[ev.path], ev.info.params)

\* C27: after index_file returns for a file whose content has a chunk, the
\* store holds the chunks of the file under the model of the manager, also
\* when a manager with another model indexed the path before.
C27_ActiveModelChunks ==
    (ReturnedQuiet /\ GenRows(ev.path, fs[ev.path], ev.info.params) # {}) =>
        GenRows(ev.path, fs[ev.path], ev.info.params)
            \subseteq RowSet(ChunksOfPath(db, ev.path))
====
